---- MODULE Spec2Model ----
(***************************************************************************)
(* KeyedConcurrentQueue of server/src/services/queue.service.js: a bounded *)
(* in-memory task queue with one FIFO lane per key, at most `concurrency`  *)
(* lanes serviced at once, retry with backoff and backpressure.            *)
(*                                                                         *)
(* The program runs on a single-threaded event loop, so every action below *)
(* is one run-to-completion piece of the source: a call of enqueue (with   *)
(* the _drain it triggers and the synchronous prefix of every _processLane *)
(* it starts), the continuation of _processLane after the awaited task     *)
(* settled, the continuation after the backoff timer fired, and the        *)
(* .finally callback of a lane.                                            *)
(*                                                                         *)
(* Tasks are opaque async functions: each invocation settles by succeeding *)
(* or by rejecting with an Error object (so err.message is defined).       *)
(***************************************************************************)
EXTENDS Naturals, Integers, Sequences, FiniteSets, TLC

\* ---------------------------------------------------------------- bounds
NumKeys == 2          \* lane keys are 1..NumKeys
MaxItems == 3         \* calls of enqueue in one behaviour
MaxRequests == 2      \* POST /submit requests in one behaviour
MaxTime == 2          \* the clock runs over 0..MaxTime

\* ------------------------------------------------------ constructor options
DefaultRetries == 2   \* retries = 2 (the default, and the value of both singletons)
DefaultRetryDelay == 1000       \* retryDelay = 1000 (ms; the default)
MaxConcurrency == NumKeys       \* opts.concurrency ranges over 1..MaxConcurrency
MaxSizeLimit == MaxItems - 1    \* opts.maxSize ranges over 1..MaxSizeLimit

Keys == 1..NumKeys
Ids == 1..MaxItems

VARIABLES
    opts,          \* constructor options {concurrency, maxSize, retries}
    _lanes,        \* key -> backlog (sequence of item ids); <<>> when absent
    laneOrder,     \* keys present in the _lanes Map, in insertion order
    _activeLanes,  \* set of keys being serviced
    _totalItems,   \* pending counter
    _processed,
    _failed,
    pc,            \* key -> position of the lane's _processLane loop
    cur,           \* key -> id of the item the loop holds (0: none)
    loops,         \* key -> number of _processLane calls not yet followed by .finally
    item,          \* id -> the item and its history
    nextId,        \* id of the next enqueue call
    enqueueThrew   \* some call of enqueue raised an exception

\* The state of the attendance write path (routes/attendance.routes.js and the
\* services it calls) and of direct calls of validateLocation.
VARIABLES
    now,           \* the clock, in minutes
    sessions,      \* sessions table: session id -> row
    attendees,     \* session_attendees table: set of <<session id, email>>
    attendance,    \* attendance table: rows in insertion order, id = position
    cheatingLogs,  \* cheating_logs table: rows in insertion order
    req,           \* request -> position of its POST /submit handler, its locals
    nextReq,       \* number of the next request to arrive
    task,          \* queue item id -> the closure the handler enqueued
    sheet,         \* ids of the records appended to the spreadsheet, in order
    violationLog,  \* rows appended to the Violations sheet, in order
    geo,           \* a direct call of validateLocation: arguments and result
    sessionCheck   \* a direct call of isSessionValid: argument and result

qvars == <<opts, _lanes, laneOrder, _activeLanes, _totalItems, _processed,
           _failed, pc, cur, loops, item, nextId, enqueueThrew>>

pvars == <<now, sessions, attendees, attendance, cheatingLogs, req, nextReq,
           task, sheet, violationLog>>

vars == <<opts, _lanes, laneOrder, _activeLanes, _totalItems, _processed,
          _failed, pc, cur, loops, item, nextId, enqueueThrew,
          now, sessions, attendees, attendance, cheatingLogs, req, nextReq,
          task, sheet, violationLog, geo, sessionCheck>>

NoError == [kind |-> "none", attempt |-> 0]
QueueFullError == [kind |-> "QueueFull", attempt |-> 0]
TaskError(n) == [kind |-> "TaskError", attempt |-> n]

\* An item: the fields of the object pushed by enqueue (key, retries, whether
\* callbacks were supplied) and its observed history: where it is, how many
\* times its task was invoked, how often each callback ran and with what
\* error, the delay of the backoff timer last set for it, and whether its
\* callbacks throw when called.
\* The queue drops the object of an item that succeeded or failed for good;
\* Settled keeps of it the key, the outcome and the callbacks' history.
NewItem(k, withCb, cbThrows) ==
    [key |-> k, retries |-> 0, cb |-> withCb, at |-> "queued", calls |-> 0,
     okCalls |-> 0, failCalls |-> 0, failErr |-> NoError, delay |-> 0,
     throws |-> withCb /\ cbThrows]

UnusedItem ==
    [key |-> 0, retries |-> 0, cb |-> FALSE, at |-> "none", calls |-> 0,
     okCalls |-> 0, failCalls |-> 0, failErr |-> NoError, delay |-> 0,
     throws |-> FALSE]

\* The mutable state of the queue as one record, so that the synchronous
\* chains of the source (enqueue -> _drain -> _processLane) compose.
Settled(it, outcome) ==
    [it EXCEPT !.at = outcome, !.retries = 0, !.cb = FALSE, !.calls = 0,
               !.delay = 0]

Q == [lanes |-> _lanes, order |-> laneOrder, active |-> _activeLanes,
      total |-> _totalItems, processed |-> _processed, failed |-> _failed,
      pc |-> pc, cur |-> cur, loops |-> loops, item |-> item]

Install(s) ==
    /\ _lanes' = s.lanes
    /\ laneOrder' = s.order
    /\ _activeLanes' = s.active
    /\ _totalItems' = s.total
    /\ _processed' = s.processed
    /\ _failed' = s.failed
    /\ pc' = s.pc
    /\ cur' = s.cur
    /\ loops' = s.loops
    /\ item' = s.item

InOrder(s, k) == \E i \in 1..Len(s.order) : s.order[i] = k

\* Mutant: the callback is called without the try/catch around it.
EscapesNoTry(cbThrows) == cbThrows

\* try { onFailure(...) } catch (e) { /* ignore */ }: whether the exception
\* of a throwing callback leaves the try statement.
EscapesTry(cbThrows) == FALSE

\* ------------------------------------------- data of the attendance path
\* config.defaultGeofenceRadius
DefaultGeofenceRadius == 100

\* config.qrCodeValidityMinutes (QR_CODE_VALIDITY_MINUTES = 1)
QrCodeValidityMinutes == 1

\* The options of the attendanceQueue singleton.
AttendanceQueueOptions ==
    [concurrency |-> 10, maxSize |-> 50000, retries |-> 2, retryDelay |-> 1000]

\* Ids of the sessions in the table, and an id no session has.
SessionIds == {1, 2}
UnknownSession == 3

\* The lane key `violations-${session.teacherId}` of the one teacher; mirror
\* tasks use the session id as their key.
ViolationsKey == 9
LaneKeys == SessionIds \cup {ViolationsKey}

RequestIds == 1..MaxRequests

\* A location object {lat, lng}, or null / undefined.
NullLocation == [given |-> FALSE, lat |-> 0, lng |-> 0]
Location(lat, lng) == [given |-> TRUE, lat |-> lat, lng |-> lng]

\* Fields of req.body and the address of the caller. "" is an omitted (or
\* empty) macAddress; coordinates are in meters on a grid.
Emails == {"a", "b"}
IpAddresses == {"ip1", "ip2"}
MacAddresses == {"", "mac1"}
Positions == {NullLocation, Location(1, 3), Location(1, 4)}

\* The rows of the sessions table once both sessions were created by
\* generateQRCode at time 0: session 1 has a classroom location, a radius of
\* 2 m and a spreadsheet; session 2 has no classroom location, the default
\* radius and no spreadsheet.
NewSessions ==
    [s \in SessionIds |->
        [isActive |-> TRUE,
         expiresAt |-> QrCodeValidityMinutes,
         classroomLocation |-> IF s = 1 THEN Location(1, 1) ELSE NullLocation,
         geofenceRadius |-> IF s = 1 THEN 2 ELSE DefaultGeofenceRadius,
         spreadsheetId |-> (s = 1),
         attendeeCount |-> 0]]

\* A handler that has not started, and one that has returned.
IdleRequest ==
    [pc |-> "idle", sessionId |-> 0, email |-> "", ipAddress |-> "",
     macAddress |-> "", position |-> NullLocation, steps |-> <<>>,
     violations |-> <<>>,
     spreadsheetId |-> FALSE, status |-> 0, message |-> ""]

NoTask ==
    [kind |-> "none", request |-> 0, recordId |-> 0, email |-> "", status |-> ""]

NoSessionCheck == [sessionId |-> 0, called |-> FALSE, valid |-> FALSE]

NoGeoCall ==
    [student |-> NullLocation, classroom |-> NullLocation, radius |-> 0,
     called |-> FALSE, valid |-> FALSE, distance |-> 0]

\* The attendance path and validateLocation at rest: the state of these
\* variables in the behaviours of the queue alone.
SubmitPathIdle ==
    /\ now = 0
    /\ sessions = <<>>
    /\ attendees = {}
    /\ attendance = <<>>
    /\ cheatingLogs = <<>>
    /\ req = <<>>
    /\ nextReq = 1
    /\ task = <<>>
    /\ sheet = <<>>
    /\ violationLog = <<>>
    /\ sessionCheck = NoSessionCheck

GeoIdle == geo = NoGeoCall

Init ==
    /\ opts \in [concurrency : 1..MaxConcurrency,
                 maxSize : 1..MaxSizeLimit,
                 retries : 0..DefaultRetries,
                 retryDelay : {DefaultRetryDelay}]
    /\ _lanes = [k \in Keys |-> <<>>]
    /\ laneOrder = <<>>
    /\ _activeLanes = {}
    /\ _totalItems = 0
    /\ _processed = 0
    /\ _failed = 0
    /\ pc = [k \in Keys |-> "idle"]
    /\ cur = [k \in Keys |-> 0]
    /\ loops = [k \in Keys |-> 0]
    /\ item = [i \in Ids |-> UnusedItem]
    /\ nextId = 1
    /\ enqueueThrew = FALSE
    /\ SubmitPathIdle
    /\ GeoIdle

\* ------------------------------------------------------------ _processLane
\* Mutant: the loop forgets this._totalItems-- when it takes an item.
ProcessLaneLoopNoDecrement(s, k) ==
    IF s.lanes[k] # <<>>
    THEN LET id == Head(s.lanes[k])
         IN [s EXCEPT !.lanes[k] = Tail(@),
                      !.pc[k] = "task",
                      !.cur[k] = id,
                      !.item[id].at = "running",
                      !.item[id].calls = @ + 1]
    ELSE [s EXCEPT !.pc[k] = "settled", !.cur[k] = 0]

\* The head of the while loop of _processLane: with a non-empty backlog the
\* first item is shifted, the pending counter decremented and the task
\* invoked (the loop then suspends at the await); with an empty backlog the
\* async function returns and its promise settles.
ProcessLaneLoop(s, k) ==
    IF s.lanes[k] # <<>>
    THEN LET id == Head(s.lanes[k])
         IN [s EXCEPT !.lanes[k] = Tail(@),
                      !.total = @ - 1,
                      !.pc[k] = "task",
                      !.cur[k] = id,
                      !.item[id].at = "running",
                      !.item[id].calls = @ + 1]
    ELSE [s EXCEPT !.pc[k] = "settled", !.cur[k] = 0]

\* Mutant: the retry test is off by one (<= instead of <).
MayRetryOnceMore(it) == it.retries <= opts.retries

\* if (item.retries < this._maxRetries)
MayRetry(it) == it.retries < opts.retries

\* Mutant: the exponent is the retry number itself.
BackoffDelayDoubled(retryDelay, retries) == retryDelay * 2 ^ retries

\* this._retryDelay * Math.pow(2, item.retries - 1), item.retries being the
\* number of the retry (already incremented).
BackoffDelay(retryDelay, retries) == retryDelay * 2 ^ (retries - 1)

\* Mutant: the failed item is pushed to the back of its lane.
ReinsertAtBack(backlog, id) == Append(backlog, id)

\* items.unshift(item): the failed item goes back to the front of its lane.
Reinsert(backlog, id) == <<id>> \o backlog

\* ------------------------------------------------------------------ _drain
\* Mutant: _drain keeps one slot less than configured.
DrainStopsEarly(s) == Cardinality(s.active) + 1 >= opts.concurrency

\* Mutant: the limit is tested with > instead of >=.
DrainStopsLate(s) == Cardinality(s.active) > opts.concurrency

\* if (this._activeLanes.size >= this._concurrency) break;
DrainStops(s) == Cardinality(s.active) >= opts.concurrency

\* Mutant: a lane that is already being serviced is started again.
DrainSkipsEmptyOnly(s, k) == s.lanes[k] = <<>>

\* if (this._activeLanes.has(key) || items.length === 0) continue;
DrainSkips(s, k) == k \in s.active \/ s.lanes[k] = <<>>

\* The for-of loop of _drain from position i of the Map's iteration order.
\* Starting a lane runs _processLane up to its first await.
RECURSIVE DrainFrom(_, _)
DrainFrom(s, i) ==
    IF i > Len(s.order) THEN s
    ELSE LET k == s.order[i]
         IN IF DrainStops(s) THEN s
            ELSE IF DrainSkips(s, k) THEN DrainFrom(s, i + 1)
            ELSE DrainFrom(
                     ProcessLaneLoop(
                         [s EXCEPT !.active = @ \cup {k}, !.loops[k] = @ + 1], k),
                     i + 1)

Drain(s) == DrainFrom(s, 1)

\* ----------------------------------------------------------------- enqueue
\* Mutant: the ceiling is tested with > instead of >=.
QueueFullLate(s) == s.total > opts.maxSize

\* if (this._totalItems >= this._maxSize)
QueueFull(s) == s.total >= opts.maxSize

\* The accepting branch of enqueue: create the lane if absent, push the item,
\* count it, drain.
Accept(s, k, id, withCb, cbThrows) ==
    Drain([s EXCEPT !.order = IF InOrder(s, k) THEN @ ELSE Append(@, k),
                    !.lanes[k] = Append(@, id),
                    !.total = @ + 1,
                    !.item[id] = NewItem(k, withCb, cbThrows)])

\* The rejecting branch: onFailure (when supplied) is called once with the
\* queue-full error inside a try/catch; nothing else is touched.
Reject(s, k, id, withCb) ==
    [s EXCEPT !.item[id] =
        [UnusedItem EXCEPT !.at = "rejected",
                           !.cb = withCb,
                           !.failCalls = IF withCb THEN 1 ELSE 0,
                           !.failErr = IF withCb THEN QueueFullError ELSE NoError]]

\* enqueue(task, label, key, {onSuccess, onFailure}); withCb: callbacks were
\* supplied; cbThrows: the supplied onFailure throws when called.
Enqueue(k, withCb, cbThrows) ==
    /\ nextId <= MaxItems
    /\ nextId' = nextId + 1
    /\ UNCHANGED opts
    /\ IF QueueFull(Q)
       THEN /\ Install(Reject(Q, k, nextId, withCb))
            /\ enqueueThrew' = (enqueueThrew \/ (withCb /\ cbThrows /\ EscapesTry(cbThrows)))
       ELSE /\ Install(Accept(Q, k, nextId, withCb, cbThrows))
            /\ UNCHANGED enqueueThrew

\* ------------------------------------------- continuations of _processLane
\* Mutant: the catch block rethrows after the terminal failure, so the loop
\* ends there and the promise of _processLane settles.
FailForGoodAndLeave(s, k, id) ==
    [s EXCEPT !.failed = @ + 1,
              !.item[id] = Settled(
                  [@ EXCEPT !.failCalls = IF s.item[id].cb THEN @ + 1 ELSE @,
                            !.failErr = IF s.item[id].cb
                                        THEN TaskError(s.item[id].calls)
                                        ELSE @],
                  "failed"),
              !.pc[k] = "settled",
              !.cur[k] = 0]

\* Mutant: the terminal failure is not counted.
FailForGoodUncounted(s, k, id) ==
    ProcessLaneLoop(
        [s EXCEPT !.item[id] = Settled(
                      [@ EXCEPT !.failCalls = IF s.item[id].cb THEN @ + 1 ELSE @,
                                !.failErr = IF s.item[id].cb
                                            THEN TaskError(s.item[id].calls)
                                            ELSE @],
                      "failed")],
        k)

\* The else branch of the catch block: retries are exhausted, count the
\* failure, call onFailure with the error, drop the item, go on with the
\* loop. An exception of onFailure that left its try statement would leave
\* the catch block and the loop with it.
FailForGood(s, k, id) ==
    LET counted ==
            [s EXCEPT !.failed = @ + 1,
                      !.item[id] = Settled(
                          [@ EXCEPT !.failCalls = IF s.item[id].cb THEN @ + 1 ELSE @,
                                    !.failErr = IF s.item[id].cb
                                                THEN TaskError(s.item[id].calls)
                                                ELSE @],
                          "failed")]
    IN IF s.item[id].throws /\ EscapesTry(s.item[id].throws)
       THEN [counted EXCEPT !.pc[k] = "settled", !.cur[k] = 0]
       ELSE ProcessLaneLoop(counted, k)

\* The catch block of _processLane: with retries left, the retry bookkeeping
\* and the backoff timer; otherwise the terminal failure.
Catch(s, k, id) ==
    IF MayRetry(s.item[id])
    THEN [s EXCEPT !.item[id].retries = @ + 1,
                   !.item[id].delay =
                       BackoffDelay(opts.retryDelay, s.item[id].retries + 1),
                   !.item[id].at = "backoff",
                   !.pc[k] = "backoff"]
    ELSE FailForGood(s, k, id)

\* The awaited task resolved: count it, call onSuccess, go on with the loop.
\* onSuccess is called inside the try block of the task: an exception of it
\* that left its own try statement would be taken by the catch block.
TaskSucceed(k) ==
    /\ pc[k] = "task"
    /\ LET id == cur[k]
           called == [Q EXCEPT !.processed = @ + 1,
                               !.item[id].okCalls =
                                   IF item[id].cb THEN @ + 1 ELSE @]
       IN IF item[id].throws /\ EscapesTry(item[id].throws)
          THEN Install(Catch(called, k, id))
          ELSE Install(ProcessLaneLoop(
                   [called EXCEPT !.item[id] = Settled(@, "ok")], k))
    /\ UNCHANGED <<opts, nextId, enqueueThrew>>

\* The awaited task rejected: the catch block runs.
TaskFail(k) ==
    /\ pc[k] = "task"
    /\ Install(Catch(Q, k, cur[k]))
    /\ UNCHANGED <<opts, nextId, enqueueThrew>>

\* The backoff timer fired: the item is put back at the front of its lane and
\* counted again; the loop goes on (and takes it at once).
BackoffDone(k) ==
    /\ pc[k] = "backoff"
    /\ LET id == cur[k]
           s == [Q EXCEPT !.lanes[k] = Reinsert(@, id),
                          !.total = @ + 1,
                          !.item[id].at = "queued"]
       IN Install(ProcessLaneLoop(s, k))
    /\ UNCHANGED <<opts, nextId, enqueueThrew>>

\* Mutant: an empty lane is kept in the Map.
LaneIsEmptyNever(s, k) == FALSE

\* Mutant: the lane is deleted without looking at its backlog.
LaneIsEmptyUnchecked(s, k) == InOrder(s, k)

\* if (this._lanes.has(key) && this._lanes.get(key).length === 0)
LaneIsEmpty(s, k) == InOrder(s, k) /\ s.lanes[k] = <<>>

\* Mutant: the callback does not call _drain again.
FinallyWithoutDrain(s, k) ==
    LET drop == LaneIsEmpty(s, k)
    IN [s EXCEPT !.active = @ \ {k},
                 !.loops[k] = @ - 1,
                 !.pc[k] = "idle",
                 !.order = IF drop THEN SelectSeq(@, LAMBDA x : x # k) ELSE @,
                 !.lanes[k] = IF drop THEN <<>> ELSE @]

\* The body of the .finally callback registered by _drain: release the slot,
\* delete the lane from the Map if it is empty, drain again.
Finally(s, k) ==
    LET drop == LaneIsEmpty(s, k)
    IN Drain([s EXCEPT !.active = @ \ {k},
                       !.loops[k] = @ - 1,
                       !.pc[k] = "idle",
                       !.order = IF drop THEN SelectSeq(@, LAMBDA x : x # k) ELSE @,
                       !.lanes[k] = IF drop THEN <<>> ELSE @])

\* The promise of _processLane(key) settled: its .finally callback runs.
LaneFinally(k) ==
    /\ pc[k] = "settled"
    /\ Install(Finally(Q, k))
    /\ UNCHANGED <<opts, nextId, enqueueThrew>>

\* The calls of enqueue the model explores: callbacks may be omitted on the
\* rejecting path; an accepted item carries its callbacks (an omitted callback
\* only skips that call in _processLane).
Explored(withCb) == withCb \/ QueueFull(Q)

\* The callbacks of accepted items return normally, in the behaviours that
\* are not about callbacks that throw.
Quiet(cbThrows) == cbThrows => QueueFull(Q)

EnqueueCall(k, withCb, cbThrows) ==
    /\ Explored(withCb)
    /\ Enqueue(k, withCb, cbThrows)

\* A step of the queue on its own: the attendance path is not involved.
Alone(A) == A /\ UNCHANGED <<pvars, geo, sessionCheck>>

Next ==
    \/ \E k \in Keys, withCb \in BOOLEAN, cbThrows \in BOOLEAN :
          Alone(Quiet(cbThrows) /\ EnqueueCall(k, withCb, cbThrows))
    \/ \E k \in Keys : Alone(TaskSucceed(k))
    \/ \E k \in Keys : Alone(TaskFail(k))
    \/ \E k \in Keys : Alone(BackoffDone(k))
    \/ \E k \in Keys : Alone(LaneFinally(k))

Spec == Init /\ [][Next]_vars

\* The queue with callbacks that may throw on accepted items too.
CallbackNext ==
    \/ \E k \in Keys, withCb \in BOOLEAN, cbThrows \in BOOLEAN :
          Alone(EnqueueCall(k, withCb, cbThrows))
    \/ \E k \in Keys : Alone(TaskSucceed(k))
    \/ \E k \in Keys : Alone(TaskFail(k))
    \/ \E k \in Keys : Alone(BackoffDone(k))
    \/ \E k \in Keys : Alone(LaneFinally(k))

CallbackSpec == Init /\ [][CallbackNext]_vars

\* Every task invocation settles, every timer fires, every microtask runs.
FairSpec ==
    /\ Spec
    /\ \A k \in Keys : WF_vars(Alone(TaskSucceed(k) \/ TaskFail(k)))
    /\ \A k \in Keys : WF_vars(Alone(BackoffDone(k)))
    /\ \A k \in Keys : WF_vars(Alone(LaneFinally(k)))

TypeOK ==
    /\ _activeLanes \subseteq Keys
    /\ _totalItems \in Nat
    /\ \A k \in Keys : pc[k] \in {"idle", "task", "backoff", "settled"}
    /\ nextId \in 1..(MaxItems + 1)

\* ======================================================= attendance path
\* ---------------------------------------------------- anticheating.service
Abs(x) == IF x < 0 THEN -x ELSE x

\* geolib.getDistance: the distance between two points in whole meters (on
\* the grid of the model, the sum of the differences of the coordinates).
GetDistance(a, b) == Abs(a.lat - b.lat) + Abs(a.lng - b.lng)

\* !location || !location.lat || !location.lng
LocationMissing(location) ==
    ~location.given \/ location.lat = 0 \/ location.lng = 0

\* radius || config.defaultGeofenceRadius
RadiusInForce(radius) == IF radius # 0 THEN radius ELSE DefaultGeofenceRadius

\* validateLocation(studentLocation, classroomLocation, radius)
ValidateLocation(studentLocation, classroomLocation, radius) ==
    IF LocationMissing(studentLocation)
    THEN [valid |-> FALSE, distance |-> -1]
    ELSE IF LocationMissing(classroomLocation)
    THEN [valid |-> TRUE, distance |-> 0]
    ELSE LET distance == GetDistance(studentLocation, classroomLocation)
         IN [valid |-> distance <= RadiusInForce(radius), distance |-> distance]

\* Mutant: the records of every session are scanned.
InAnySession(r, sessionId) == TRUE

\* attendance.filter(r => r.sessionId === sessionId)
InSession(r, sessionId) == r.sessionId = sessionId

\* (ipAddress && r.ipAddress === ipAddress) ||
\* (macAddress && r.macAddress === macAddress)
SameDevice(r, ipAddress, macAddress) ==
    \/ ipAddress # "" /\ r.ipAddress = ipAddress
    \/ macAddress # "" /\ r.macAddress = macAddress

\* checkDuplicateDevice(sessionId, ipAddress, macAddress) on the rows that
\* getAttendanceStore() returns.
CheckDuplicateDevice(store, sessionId, ipAddress, macAddress) ==
    LET duplicates == SelectSeq(store,
            LAMBDA r : InSession(r, sessionId) /\ SameDevice(r, ipAddress, macAddress))
    IN [isDuplicate |-> Len(duplicates) > 0,
        duplicateOf |-> [i \in 1..Len(duplicates) |-> duplicates[i].email]]

\* The violations list built by validateSubmission: location first, then
\* duplicate device.
ViolationsOf(locationResult, duplicateResult) ==
    (IF ~locationResult.valid /\ locationResult.distance >= 0
     THEN <<[type |-> "Location Violation", distance |-> locationResult.distance]>>
     ELSE <<>>)
    \o
    (IF duplicateResult.isDuplicate
     THEN <<[type |-> "Duplicate Device",
             distance |-> IF locationResult.distance >= 0
                          THEN locationResult.distance ELSE 0]>>
     ELSE <<>>)

\* The arguments of the logViolation calls of validateSubmission, in order:
\* one per violation of the submitter, then, on a duplicate device, one
\* standalone entry per matching earlier submitter.
LogEntriesOf(sessionId, email, violations, duplicateResult) ==
    [i \in 1..Len(violations) |->
        [sessionId |-> sessionId, email |-> email,
         violationType |-> violations[i].type]]
    \o
    (IF Len(violations) > 0 /\ duplicateResult.isDuplicate
     THEN [i \in 1..Len(duplicateResult.duplicateOf) |->
              [sessionId |-> sessionId,
               email |-> duplicateResult.duplicateOf[i],
               violationType |-> "Duplicate Device"]]
     ELSE <<>>)

\* ------------------------------------------- store.service, cheating logs
\* getCheatingStore(): a fresh array of the rows of the table.
GetCheatingStore(table) == table

\* saveCheatingStore(logs): function saveCheatingStore() { /* No-op */ }
SaveCheatingStore(table, logs) == table

\* logViolation(violation): get the store, push, save; the table afterwards.
LogViolation(table, violation) ==
    SaveCheatingStore(table, Append(GetCheatingStore(table), violation))

RECURSIVE LogViolations(_, _)
LogViolations(table, entries) ==
    IF entries = <<>> THEN table
    ELSE LogViolations(LogViolation(table, Head(entries)), Tail(entries))

\* ----------------------------------------- session.service, store.service
\* Mutant: the isActive test is left out.
IsActiveUnchecked(row) == TRUE

\* if (!session.isActive) return { valid: false, ... }
IsActive(row) == row.isActive

\* new Date() > new Date(session.expiresAt)
IsExpired(row) == now > row.expiresAt

\* deactivateSession(sessionId): UPDATE sessions SET is_active = 0
DbDeactivateSession(table, sessionId) ==
    [table EXCEPT ![sessionId].isActive = FALSE]

\* isSessionValid(sessionId): the verdict ...
IsSessionValid(table, sessionId) ==
    /\ sessionId \in DOMAIN table
    /\ IsActive(table[sessionId])
    /\ ~IsExpired(table[sessionId])

\* ... and the table it leaves: an active session read after its expiry is
\* deactivated.
AfterIsSessionValid(table, sessionId) ==
    IF /\ sessionId \in DOMAIN table
       /\ IsActive(table[sessionId])
       /\ IsExpired(table[sessionId])
    THEN DbDeactivateSession(table, sessionId)
    ELSE table

\* Mutant: the membership test always answers no.
HasSessionAttendeeNever(set, sessionId, email) == FALSE

\* hasSessionAttendee: SELECT 1 FROM session_attendees WHERE ...
HasSessionAttendee(set, sessionId, email) == <<sessionId, email>> \in set

\* addSessionAttendee: INSERT OR IGNORE, then the recount.
AddAttendee(set, sessionId, email) == set \cup {<<sessionId, email>>}

AttendeeCount(set, sessionId) == Cardinality({p \in set : p[1] = sessionId})

\* serializeAttendance: field || null
OrNull(field) == IF field = "" THEN "null" ELSE field

\* Mutant: the insert also flags the stored rows of the session that came
\* from the same device.
AddAttendanceRecordFlaggingPrevious(table, record) ==
    Append([n \in 1..Len(table) |->
               IF /\ table[n].sessionId = record.sessionId
                  /\ table[n].ipAddress = record.ipAddress
               THEN [table[n] EXCEPT !.status = "FLAGGED"]
               ELSE table[n]],
           [sessionId |-> record.sessionId,
            email |-> record.email,
            ipAddress |-> record.ipAddress,
            macAddress |-> record.macAddress,
            status |-> record.status,
            violations |-> record.violations,
            synced |-> FALSE])

\* addAttendanceRecord(record): INSERT with synced = 0; the new table.
AddAttendanceRecord(table, record) ==
    Append(table, [sessionId |-> record.sessionId,
                   email |-> record.email,
                   ipAddress |-> OrNull(record.ipAddress),
                   macAddress |-> OrNull(record.macAddress),
                   status |-> record.status,
                   violations |-> record.violations,
                   synced |-> FALSE])

\* markAttendanceSynced(id): UPDATE attendance SET synced = 1 WHERE id = ?
MarkAttendanceSynced(table, id) ==
    IF id \in 1..Len(table) THEN [table EXCEPT ![id].synced = TRUE] ELSE table

\* deactivateExpiredSessions(): UPDATE sessions SET is_active = 0 WHERE
\* is_active = 1 AND expires_at < now
DeactivateExpired(table) ==
    [s \in DOMAIN table |->
        IF table[s].isActive /\ table[s].expiresAt < now
        THEN [table[s] EXCEPT !.isActive = FALSE]
        ELSE table[s]]

\* Mutant: the extension moves the expiry and leaves isActive as it is.
ExtendedSessionOnlyExpiry(row, additionalMinutes) ==
    [row EXCEPT !.expiresAt = @ + additionalMinutes]

\* extendSession(sessionId, additionalMinutes)
ExtendedSession(row, additionalMinutes) ==
    [row EXCEPT !.expiresAt = @ + additionalMinutes, !.isActive = TRUE]

\* ------------------------------------------------- POST /submit handler
\* macAddress || 'N/A'
MacOrNA(macAddress) == IF macAddress = "" THEN "N/A" ELSE macAddress

\* latitude && longitude ? { lat: latitude, lng: longitude } : null
StudentLocation(position) ==
    IF position.given /\ position.lat # 0 /\ position.lng # 0
    THEN Location(position.lat, position.lng)
    ELSE NullLocation

SubmittedMessage == "Attendance submitted successfully"
AlreadyRecordedMessage == "Attendance already recorded"

\* res.json(...) and the return of the handler; steps lists the calls the
\* handler made from its response or its step 4 on, in program order.
Responded(status, message) ==
    [IdleRequest EXCEPT !.pc = "done", !.status = status, !.message = message,
                        !.steps = <<"res.json">>]

\* Mutant: the status does not depend on the validation.
StatusAlwaysPresent(isValid) == "PRESENT"

\* validationResult.isValid ? 'PRESENT' : 'FLAGGED'
StatusOf(isValid) == IF isValid THEN "PRESENT" ELSE "FLAGGED"

\* Mutant: the attendance task is enqueued whether or not the session has a
\* spreadsheet.
MirrorsRecordAlways(rq) == TRUE

\* if (session.spreadsheetId): the attendance task is enqueued.
MirrorsRecord(rq) == rq.spreadsheetId

\* Mutant: the violation task is enqueued for every mirrored submission.
MirrorsViolationsAlways(rq) == rq.spreadsheetId

\* if (!validationResult.isValid), inside if (session.spreadsheetId): the
\* violation task is enqueued.
MirrorsViolations(rq) == rq.spreadsheetId /\ rq.violations # <<>>

\* The number of enqueue calls the rest of a suspended handler makes.
EnqueuesOf(rq) ==
    (IF MirrorsRecord(rq) THEN 1 ELSE 0) + (IF MirrorsViolations(rq) THEN 1 ELSE 0)

RECURSIVE Reserved(_)
Reserved(r) ==
    IF r = 0 THEN 0
    ELSE Reserved(r - 1) + (IF req[r].pc = "awaiting" THEN EnqueuesOf(req[r]) ELSE 0)

\* Mutant: the handler responds after it has enqueued the mirror tasks.
ResumeStepsRespondLast(rq) ==
    <<"addAttendanceRecord", "addAttendee">>
    \o [i \in 1..EnqueuesOf(rq) |-> "enqueue"]
    \o <<"res.json">>

\* The calls of the rest of the handler, in program order: addAttendanceRecord
\* and SessionService.addAttendee (step 4), res.json, then the enqueue calls.
ResumeSteps(rq) ==
    <<"addAttendanceRecord", "addAttendee", "res.json">>
    \o [i \in 1..EnqueuesOf(rq) |-> "enqueue"]

\* enqueue as a function of the queue state.
EnqueueOn(s, k, id, withCb) ==
    IF QueueFull(s) THEN Reject(s, k, id, withCb)
    ELSE Accept(s, k, id, withCb, FALSE)

\* Steps 1 to 3 of the handler, up to its await: the session check, the
\* duplicate check, and validateSubmission, which runs to its end (it awaits
\* nothing) before the handler is suspended on its promise.
SubmitBegin(r, sessionId, email, ipAddress, macAddress, position) ==
    /\ r = nextReq
    /\ r <= MaxRequests
    /\ nextReq' = nextReq + 1
    /\ sessions' = AfterIsSessionValid(sessions, sessionId)
    /\ IF ~IsSessionValid(sessions, sessionId)
       THEN /\ req' = [req EXCEPT ![r] = Responded(200, SubmittedMessage)]
            /\ UNCHANGED cheatingLogs
       ELSE IF HasSessionAttendee(attendees, sessionId, email)
       THEN /\ req' = [req EXCEPT ![r] = Responded(200, AlreadyRecordedMessage)]
            /\ UNCHANGED cheatingLogs
       ELSE LET session == sessions[sessionId]
                mac == MacOrNA(macAddress)
                locationResult == ValidateLocation(StudentLocation(position),
                                                   session.classroomLocation,
                                                   session.geofenceRadius)
                duplicateResult == CheckDuplicateDevice(attendance, sessionId,
                                                        ipAddress, mac)
                violations == ViolationsOf(locationResult, duplicateResult)
                rq == [IdleRequest EXCEPT !.pc = "awaiting",
                                          !.sessionId = sessionId,
                                          !.email = email,
                                          !.ipAddress = ipAddress,
                                          !.macAddress = mac,
                                          !.position = position,
                                          !.violations = violations,
                                          !.spreadsheetId = session.spreadsheetId]
            IN /\ nextId + Reserved(MaxRequests) + EnqueuesOf(rq) <= MaxItems + 1
               /\ req' = [req EXCEPT ![r] = rq]
               /\ cheatingLogs' = LogViolations(cheatingLogs,
                      LogEntriesOf(sessionId, email, violations, duplicateResult))
    /\ UNCHANGED <<qvars, now, attendees, attendance, task, sheet,
                   violationLog, geo, sessionCheck>>

\* The rest of the handler after the await: step 4 (the record, the
\* attendee), the response, and the enqueue calls of step 5 with the _drain
\* each of them runs.
SubmitResume(r) ==
    /\ req[r].pc = "awaiting"
    /\ LET rq == req[r]
           isValid == rq.violations = <<>>
           record == [sessionId |-> rq.sessionId, email |-> rq.email,
                      ipAddress |-> rq.ipAddress, macAddress |-> rq.macAddress,
                      status |-> StatusOf(isValid), violations |-> rq.violations]
           recordId == Len(attendance) + 1
           mirrored == MirrorsRecord(rq)
           flagged == MirrorsViolations(rq)
           s1 == IF mirrored THEN EnqueueOn(Q, rq.sessionId, nextId, TRUE) ELSE Q
           s2 == IF flagged THEN EnqueueOn(s1, ViolationsKey, nextId + 1, FALSE) ELSE s1
       IN /\ attendance' = AddAttendanceRecord(attendance, record)
          /\ attendees' = AddAttendee(attendees, rq.sessionId, rq.email)
          /\ sessions' = [sessions EXCEPT ![rq.sessionId].attendeeCount =
                             AttendeeCount(attendees', rq.sessionId)]
          /\ req' = [req EXCEPT ![r] =
                         [Responded(200, SubmittedMessage) EXCEPT
                             !.steps = ResumeSteps(rq)]]
          /\ Install(s2)
          /\ nextId' = nextId + EnqueuesOf(rq)
          /\ task' = [i \in Ids |->
                IF mirrored /\ i = nextId
                THEN [kind |-> "attendance", request |-> r, recordId |-> recordId,
                      email |-> record.email, status |-> record.status]
                ELSE IF flagged /\ i = nextId + 1
                THEN [kind |-> "violation", request |-> r, recordId |-> recordId,
                      email |-> record.email, status |-> record.status]
                ELSE task[i]]
    /\ UNCHANGED <<opts, enqueueThrew, now, cheatingLogs, nextReq, sheet,
                   violationLog, geo, sessionCheck>>

\* ------------------------------------------------------- the mirror tasks
\* The teacher of a session has Google tokens: generate-qr answers 401
\* without them and updateTeacher never clears them (COALESCE).
HasGoogleTokens == TRUE

\* Mutant: the task returns without appending.
AppendNothing(rows, recordId) == rows

\* The attendance task: if (!teacher?.googleTokens) return; otherwise
\* await driveService.appendAttendanceRecord(...): the rows once it resolved.
AppendAttendanceRecord(rows, recordId) ==
    IF HasGoogleTokens THEN Append(rows, recordId) ELSE rows

\* The rows the violation task appends for a record: one
\* driveService.logViolation call per violation, in the order of the list.
ViolationRows(recordId) ==
    [i \in 1..Len(attendance[recordId].violations) |->
        [recordId |-> recordId,
         violationType |-> attendance[recordId].violations[i].type]]

\* for (const v of validationResult.violations) await driveService
\* .logViolation(...): the log once the first n calls have resolved.
LogViolationRows(log, rows, n) == log \o SubSeq(rows, 1, n)

\* The task of the lane's item resolved: the row is on the sheet (or every
\* violation of the record in the log), and _processLane calls the item's
\* onSuccess (markAttendanceSynced; the violation task has none).
MirrorSucceed(k) ==
    /\ TaskSucceed(k)
    /\ LET t == task[cur[k]]
       IN IF t.kind = "attendance"
          THEN /\ sheet' = AppendAttendanceRecord(sheet, t.recordId)
               /\ attendance' = MarkAttendanceSynced(attendance, t.recordId)
               /\ UNCHANGED violationLog
          ELSE /\ violationLog' =
                      LogViolationRows(violationLog, ViolationRows(t.recordId),
                                       Len(ViolationRows(t.recordId)))
               /\ UNCHANGED <<sheet, attendance>>
    /\ UNCHANGED <<now, sessions, attendees, cheatingLogs, req, nextReq,
                   task, geo, sessionCheck>>

\* Mutant: the handler awaits the task it enqueues.
AwaitsTaskAlways == TRUE

\* attendanceQueue.enqueue(...) returns a boolean and is not awaited: the
\* promise of a task is awaited by _processLane alone, inside its try.
AwaitsTask == FALSE

\* catch (error) { res.status(500).json({ error: 'Failed to submit
\* attendance' }) }: the catch block of the handler.
HandlerCatch(rq) ==
    [rq EXCEPT !.status = 500, !.message = "Failed to submit attendance",
               !.steps = Append(@, "res.status(500).json")]

\* The task rejected: an external call failed. The attendance task makes one
\* append, which then did not happen; the violation task fails at
\* getOrCreateCheatingLog or at one of its logViolation calls, after the
\* calls before it have appended their rows.
MirrorFail(k) ==
    /\ TaskFail(k)
    /\ LET t == task[cur[k]]
       IN IF t.kind = "violation"
          THEN \E n \in 0..(Len(ViolationRows(t.recordId)) - 1) :
                   violationLog' =
                       LogViolationRows(violationLog, ViolationRows(t.recordId), n)
          ELSE UNCHANGED violationLog
    /\ req' = IF AwaitsTask
              THEN [req EXCEPT ![task[cur[k]].request] = HandlerCatch(@)]
              ELSE req
    /\ UNCHANGED <<now, sessions, attendees, attendance, cheatingLogs,
                   nextReq, task, sheet, geo, sessionCheck>>

\* ------------------------------------------------- sessions and the clock
Tick ==
    /\ now < MaxTime
    /\ now' = now + 1
    /\ UNCHANGED <<qvars, sessions, attendees, attendance, cheatingLogs, req,
                   nextReq, task, sheet, violationLog, geo,
                   sessionCheck>>

\* POST /sessions/:id/extend
ExtendSession(sessionId, additionalMinutes) ==
    /\ sessions[sessionId].expiresAt + additionalMinutes <= MaxTime
    /\ sessions' = [sessions EXCEPT
                       ![sessionId] = ExtendedSession(@, additionalMinutes)]
    /\ UNCHANGED <<qvars, now, attendees, attendance, cheatingLogs, req,
                   nextReq, task, sheet, violationLog, geo,
                   sessionCheck>>

\* SessionService.deactivateSession, called by the teacher.
DeactivateSession(sessionId) ==
    /\ sessions[sessionId].isActive
    /\ sessions' = DbDeactivateSession(sessions, sessionId)
    /\ UNCHANGED <<qvars, now, attendees, attendance, cheatingLogs, req,
                   nextReq, task, sheet, violationLog, geo,
                   sessionCheck>>

\* GET /sessions/active and GET /sessions/history: the store sweeps the
\* expired sessions before it reads.
DeactivateExpiredSessions ==
    /\ sessions' = DeactivateExpired(sessions)
    /\ UNCHANGED <<qvars, now, attendees, attendance, cheatingLogs, req,
                   nextReq, task, sheet, violationLog, geo, sessionCheck>>

\* The queue at rest, constructed with the given options.
QueueAtRest(options, keys) ==
    /\ opts = options
    /\ _lanes = [k \in keys |-> <<>>]
    /\ laneOrder = <<>>
    /\ _activeLanes = {}
    /\ _totalItems = 0
    /\ _processed = 0
    /\ _failed = 0
    /\ pc = [k \in keys |-> "idle"]
    /\ cur = [k \in keys |-> 0]
    /\ loops = [k \in keys |-> 0]
    /\ item = [i \in Ids |-> UnusedItem]
    /\ nextId = 1
    /\ enqueueThrew = FALSE

\* The server once both sessions are created: empty tables, idle queue.
SubmitInit ==
    /\ QueueAtRest(AttendanceQueueOptions, LaneKeys)
    /\ now = 0
    /\ sessions = NewSessions
    /\ attendees = {}
    /\ attendance = <<>>
    /\ cheatingLogs = <<>>
    /\ req = [r \in RequestIds |-> IdleRequest]
    /\ nextReq = 1
    /\ task = [i \in Ids |-> NoTask]
    /\ sheet = <<>>
    /\ violationLog = <<>>
    /\ sessionCheck = NoSessionCheck
    /\ GeoIdle

\* A POST /submit request arrives, from one of the given devices and
\* positions, and its handler runs up to its await.
Submit(ipAddresses, macAddresses, positions) ==
    \E r \in RequestIds, sessionId \in SessionIds \cup {UnknownSession},
       email \in Emails, ipAddress \in ipAddresses,
       macAddress \in macAddresses, position \in positions :
        SubmitBegin(r, sessionId, email, ipAddress, macAddress, position)

\* The submissions of students on any device at any position, while the
\* sessions are within their validity and the teacher leaves them alone.
SubmitNext ==
    \/ Submit(IpAddresses, MacAddresses, Positions)
    \/ \E r \in RequestIds : SubmitResume(r)
    \/ \E k \in LaneKeys : MirrorSucceed(k)
    \/ \E k \in LaneKeys : MirrorFail(k)
    \/ \E k \in LaneKeys : Alone(BackoffDone(k))
    \/ \E k \in LaneKeys : Alone(LaneFinally(k))

SubmitSpec == SubmitInit /\ [][SubmitNext]_vars

\* The device and the positions of the submissions in the behaviours with the
\* life cycle of the sessions.
OneDevice == {"ip1"}
NoMac == {""}
TwoPositions == {Location(1, 3), Location(1, 4)}

\* The same with the clock, session extension and deactivation, the
\* submissions coming from one device.
SessionNext ==
    \/ Submit(OneDevice, NoMac, TwoPositions)
    \/ \E r \in RequestIds : SubmitResume(r)
    \/ \E k \in LaneKeys : MirrorSucceed(k)
    \/ \E k \in LaneKeys : MirrorFail(k)
    \/ \E k \in LaneKeys : Alone(BackoffDone(k))
    \/ \E k \in LaneKeys : Alone(LaneFinally(k))
    \/ Tick
    \/ \E sessionId \in SessionIds : ExtendSession(sessionId, 1)
    \/ \E sessionId \in SessionIds : DeactivateSession(sessionId)
    \/ DeactivateExpiredSessions

SessionSpec == SubmitInit /\ [][SessionNext]_vars

\* ------------------------------------------------ the drive setup task
\* The task POST /generate enqueues on driveQueue after it has responded: once
\* the folder and the sheet exist, SessionService.updateSession(sessionId,
\* { spreadsheetId, ... }) attaches them to the session.
DriveSetup(sessionId) ==
    /\ ~sessions[sessionId].spreadsheetId
    /\ sessions' = [sessions EXCEPT ![sessionId].spreadsheetId = TRUE]
    /\ UNCHANGED <<qvars, now, attendees, attendance, cheatingLogs, req,
                   nextReq, task, sheet, violationLog, geo, sessionCheck>>

\* The submissions from one device while the drive setup of a session may
\* still be under way.
SetupNext ==
    \/ Submit(OneDevice, NoMac, TwoPositions)
    \/ \E r \in RequestIds : SubmitResume(r)
    \/ \E k \in LaneKeys : MirrorSucceed(k)
    \/ \E k \in LaneKeys : MirrorFail(k)
    \/ \E k \in LaneKeys : Alone(BackoffDone(k))
    \/ \E k \in LaneKeys : Alone(LaneFinally(k))
    \/ \E sessionId \in SessionIds : DriveSetup(sessionId)

SetupSpec == SubmitInit /\ [][SetupNext]_vars

\* ------------------------------------------- direct calls of isSessionValid
\* const sessionCheck = SessionService.isSessionValid(sessionId): the call
\* runs to its end and leaves its verdict.
IsSessionValidCall(sessionId) ==
    /\ ~sessionCheck.called
    /\ sessionCheck' = [sessionId |-> sessionId, called |-> TRUE,
                        valid |-> IsSessionValid(sessions, sessionId)]
    /\ sessions' = AfterIsSessionValid(sessions, sessionId)
    /\ UNCHANGED <<qvars, now, attendees, attendance, cheatingLogs, req,
                   nextReq, task, sheet, violationLog, geo>>

\* The caller has read the verdict.
IsSessionValidReturn ==
    /\ sessionCheck.called
    /\ sessionCheck' = NoSessionCheck
    /\ UNCHANGED <<qvars, pvars, geo>>

\* isSessionValid called at any time on any session id, between the ticks of
\* the clock and the extensions and deactivations of the teacher.
ValidityNext ==
    \/ \E sessionId \in SessionIds \cup {UnknownSession} :
          IsSessionValidCall(sessionId)
    \/ IsSessionValidReturn
    \/ Tick
    \/ \E sessionId \in SessionIds : ExtendSession(sessionId, 1)
    \/ \E sessionId \in SessionIds : DeactivateSession(sessionId)
    \/ DeactivateExpiredSessions

ValiditySpec == SubmitInit /\ [][ValidityNext]_vars

\* ------------------------------------------ direct calls of validateLocation
GeoCoordinates == {0, 1, 2, 3, 101, 102}
GeoLocations ==
    {NullLocation} \cup
    {Location(lat, lng) : lat \in GeoCoordinates, lng \in GeoCoordinates}

\* The radius argument: 0 stands for every falsy value (undefined, null, 0).
GeoRadii == {0, 1, 2}

GeoInit ==
    /\ QueueAtRest(AttendanceQueueOptions, LaneKeys)
    /\ SubmitPathIdle
    /\ geo \in [student : GeoLocations, classroom : GeoLocations,
                radius : GeoRadii, called : {FALSE}, valid : {FALSE},
                distance : {0}]

ValidateLocationCall ==
    /\ ~geo.called
    /\ LET result == ValidateLocation(geo.student, geo.classroom, geo.radius)
       IN geo' = [geo EXCEPT !.called = TRUE,
                             !.valid = result.valid,
                             !.distance = result.distance]
    /\ UNCHANGED <<qvars, pvars, sessionCheck>>

GeoNext == ValidateLocationCall

GeoSpec == GeoInit /\ [][GeoNext]_vars

\* ================================================================== claims
Accepted(i) == item[i].at \in {"queued", "running", "backoff", "ok", "failed"}
Live(i) == item[i].at \in {"queued", "running", "backoff"}
Done(i) == item[i].at \in {"ok", "failed"}
Started(i) == item[i].calls > 0 \/ Done(i)
InFlight(k) == {i \in Ids : item[i].at = "running" /\ item[i].key = k}
Waiting == {i \in Ids : item[i].at = "queued"}
IsEnqueueCall == nextId' = nextId + 1
Rejected(i) == item[i].at = "rejected"

\* C1: per-key FIFO. Ids follow the order of the enqueue calls. For two items
\* a before b of the same key, as long as a has not finished for good
\* (succeeded, or failed with retries exhausted), no invocation of b's task
\* has started: b still waits, untouched, in the backlog.
C1_PerKeyFifo ==
    \A a \in Ids, b \in Ids :
        (a < b /\ Live(a) /\ Accepted(b) /\ item[a].key = item[b].key)
            => (item[b].at = "queued" /\ item[b].calls = 0)

\* The spec's scenario in progress: retries = 2, three items under one key,
\* item 1 failed twice and runs its third attempt, 2 and 3 still wait in order.
C1_Witness ==
    /\ opts.retries = 2
    /\ item[1].at = "running" /\ item[1].calls = 3
    /\ item[2].key = item[1].key /\ item[3].key = item[1].key
    /\ _lanes[item[1].key] = <<2, 3>>

\* C2: at most one task per lane key is in flight and at most one
\* _processLane loop exists per key.
C2_OneTaskPerKey ==
    \A k \in Keys : Cardinality(InFlight(k)) <= 1 /\ loops[k] <= 1

\* A key with a task in flight and a non-empty backlog while a slot is free:
\* only the active-set test of _drain keeps the backlog from being started.
C2_Witness ==
    \E k \in Keys :
        /\ InFlight(k) # {}
        /\ _lanes[k] # <<>>
        /\ Cardinality(_activeLanes) < opts.concurrency

\* C3: the number of active lanes is at most opts.concurrency, and so is the
\* number of tasks in flight.
C3_ActiveBounded ==
    /\ Cardinality(_activeLanes) <= opts.concurrency
    /\ Cardinality({i \in Ids : item[i].at = "running"}) <= opts.concurrency

\* Every slot is taken and another non-empty lane waits for one.
C3_Witness ==
    /\ Cardinality(_activeLanes) = opts.concurrency
    /\ \E k \in Keys : k \notin _activeLanes /\ _lanes[k] # <<>>

\* C4: a call of enqueue made while the pending count is >= maxSize returns
\* false (the item is rejected), has called the supplied onFailure exactly
\* once with the queue-full error, raises nothing even when onFailure throws,
\* and leaves lanes, active set, counters and all earlier items as they were.
C4_Backpressure ==
    [][(IsEnqueueCall /\ _totalItems >= opts.maxSize) =>
          /\ item'[nextId].at = "rejected"
          /\ item'[nextId].cb => (item'[nextId].failCalls = 1
                                  /\ item'[nextId].failErr = QueueFullError)
          /\ ~item'[nextId].cb => item'[nextId].failCalls = 0
          /\ ~enqueueThrew'
          /\ UNCHANGED <<_lanes, laneOrder, _activeLanes, _totalItems,
                         _processed, _failed, pc, cur>>
          /\ \A i \in Ids : i # nextId => item'[i] = item[i]]_vars

\* A call was rejected with its onFailure called, while an item admitted
\* earlier still waits in its lane.
C4_Witness ==
    \E i \in Ids, j \in Ids :
        /\ Rejected(i) /\ item[i].cb /\ item[i].failCalls = 1
        /\ j < i /\ item[j].at = "queued"

\* C5: the pending count never exceeds maxSize, nor does the total length of
\* the backlogs, in every state between two steps of the event loop.
C5_MaxSizeCeiling ==
    /\ _totalItems <= opts.maxSize
    /\ Cardinality(Waiting) <= opts.maxSize

\* A retried item has been re-inserted and taken again while the backlogs,
\* filled by enqueues accepted during its backoff, are at the ceiling.
C5_Witness ==
    \E k \in Keys :
        /\ pc[k] = "task"
        /\ item[cur[k]].retries > 0
        /\ \E j \in Ids : j > cur[k] /\ item[j].at = "queued"
        /\ _totalItems = opts.maxSize

\* C6 as stated: an accepted item counts toward the pending count until it
\* completes, so a call of enqueue is rejected exactly when the number of
\* accepted, not yet completed items is >= maxSize (maxSize = 2 and two slow
\* tasks under two keys: the third call returns false).
C6_Original ==
    [][IsEnqueueCall =>
          (item'[nextId].at = "rejected"
              <=> Cardinality({i \in Ids : Live(i)}) >= opts.maxSize)]_vars

\* C6 amended: an accepted item counts toward the pending count only while it
\* waits in its lane's backlog; it stops counting when its task is started and
\* is not counted in flight or in backoff. A call of enqueue is rejected
\* exactly when the number of waiting items is >= maxSize.
C6_PendingIsWaiting ==
    [][IsEnqueueCall =>
          (item'[nextId].at = "rejected"
              <=> Cardinality(Waiting) >= opts.maxSize)]_vars

\* maxSize = 2, two unfinished tasks in flight under two different keys, and
\* the third call of enqueue was accepted.
C6_Witness ==
    /\ opts.maxSize = 2
    /\ item[1].at = "running" /\ item[2].at = "running"
    /\ item[1].key # item[2].key
    /\ Accepted(3)

InBacklog(lanes, i) == \E k \in Keys : \E n \in 1..Len(lanes[k]) : lanes[k][n] = i

\* C7: the task of an item is invoked at most retries+1 times; an item fails
\* for good only at its invocation number retries+1, and then _failed grows by
\* one, onFailure is called once with the error of that last attempt, and the
\* item is never executed or re-inserted again.
C7_RetryLimit ==
    [][\A i \in Ids :
          /\ item'[i].calls <= opts.retries + 1
          /\ (item[i].at = "running" /\ item'[i].at = "failed") =>
                /\ item[i].calls = opts.retries + 1
                /\ _failed' = _failed + 1
                /\ item'[i].failCalls = 1
                /\ item'[i].okCalls = 0
                /\ item'[i].failErr = TaskError(opts.retries + 1)
          /\ item[i].at = "failed" =>
                /\ item'[i] = item[i]
                /\ ~InBacklog(_lanes', i)
                /\ \A k \in Keys : cur'[k] # i]_vars

\* With retries = 2 an item failed on each of its three attempts; another item
\* was retried and is in flight.
C7_Witness ==
    /\ opts.retries = 2
    /\ \E i \in Ids :
          /\ item[i].at = "failed"
          /\ item[i].failCalls = 1
          /\ item[i].failErr = TaskError(3)
    /\ \E j \in Ids : item[j].at = "running" /\ item[j].calls = 3

Idle ==
    /\ _totalItems = 0
    /\ _activeLanes = {}
    /\ laneOrder = <<>>
    /\ \A i \in Ids : ~Live(i)

\* C8: an item that failed for good does not block its lane. When item a fails
\* terminally, the first item of its backlog is started in that same step with
\* its retry count and callbacks untouched, and every waiting item b behind an
\* in-flight, backing-off or failed a of the same key is eventually started.
C8_FailedDoesNotBlock ==
    /\ [][\A a \in Ids :
            (item[a].at = "running" /\ item'[a].at = "failed") =>
               /\ \A b \in Ids : (b # a /\ Live(b)) =>
                     /\ item'[b].retries = item[b].retries
                     /\ item'[b].cb = item[b].cb
                     /\ item'[b].key = item[b].key
               /\ _lanes[item[a].key] # <<>> =>
                     LET b == Head(_lanes[item[a].key])
                     IN item'[b].at = "running" /\ item'[b].calls = 1]_vars
    /\ \A b \in Ids :
          (/\ item[b].at = "queued"
           /\ \E a \in Ids :
                 /\ a < b
                 /\ item[a].at \in {"running", "backoff", "failed"}
                 /\ item[a].key = item[b].key) ~> Started(b)

\* Item 1 exhausted its retries and item 2 of the same key is in flight, with
\* item 3 of that key behind it.
C8_Witness ==
    /\ item[1].at = "failed" /\ item[2].at = "running" /\ item[3].at = "queued"
    /\ item[2].key = item[1].key /\ item[3].key = item[1].key
    /\ item[2].retries = 0

\* C9: every accepted item eventually succeeds or fails for good, keeps that
\* one outcome, and the queue ends idle: nothing pending, no active lane, no
\* lane in the table.
C9_NoStrandedWork ==
    /\ \A i \in Ids : Live(i) ~> Done(i)
    /\ <>[]Idle
    /\ [][\A i \in Ids : Done(i) => item'[i] = item[i]]_vars

\* An enqueue landed on a lane whose loop had just found it empty (its
\* .finally has not run yet) while another lane waits for the only slot.
C9_Witness ==
    \E k \in Keys, j \in Keys :
        /\ pc[k] = "settled" /\ _lanes[k] # <<>>
        /\ j # k /\ j \notin _activeLanes /\ _lanes[j] # <<>>

BackoffLanes == {k \in Keys : pc[k] = "backoff"}
OthersProgress(j) == j \in _activeLanes \/ \E m \in _activeLanes : pc[m] # "backoff"

\* C10 as stated: while a lane is in backoff, every other non-empty lane is
\* being serviced or waits for a slot held by a lane that is not in backoff.
C10_Original ==
    \A k \in Keys, j \in Keys :
        (pc[k] = "backoff" /\ j # k /\ _lanes[j] # <<>>) => OthersProgress(j)

\* C10 amended: the same, as long as fewer lanes are in backoff than there are
\* slots (in particular one failing lane and concurrency >= 2). A lane in
\* backoff keeps its slot; with every slot held by lanes in backoff, the other
\* lanes wait until one of those items succeeds or exhausts its retries.
C10_NoStarvation ==
    \A k \in Keys, j \in Keys :
        (/\ pc[k] = "backoff" /\ j # k /\ _lanes[j] # <<>>
         /\ Cardinality(BackoffLanes) < opts.concurrency) => OthersProgress(j)

\* One lane waits in backoff while another lane, with a backlog, runs a task
\* on its own slot.
C10_Witness ==
    \E k \in Keys, j \in Keys :
        /\ pc[k] = "backoff" /\ j # k
        /\ pc[j] = "task" /\ _lanes[j] # <<>>
        /\ Cardinality(BackoffLanes) < opts.concurrency

\* C11: cross-key parallelism. A call of enqueue under a key that is not being
\* serviced, made while a slot is free, starts its task in that same call,
\* whatever tasks of other keys are in flight, and those stay in flight: with
\* concurrency >= 2 a task of key B starts before the earlier, still running
\* task of key A has finished.
C11_CrossKeyParallel ==
    [][(/\ IsEnqueueCall
        /\ item'[nextId].at # "rejected"
        /\ item'[nextId].key \notin _activeLanes
        /\ Cardinality(_activeLanes) < opts.concurrency) =>
           /\ item'[nextId].at = "running"
           /\ item'[nextId].calls = 1
           /\ \A i \in Ids : item[i].at = "running" => item'[i].at = "running"]_vars

\* Item 1 of key A is still in flight and item 2, enqueued later under key B,
\* is in flight too.
C11_Witness ==
    /\ opts.concurrency >= 2
    /\ item[1].at = "running" /\ item[2].at = "running"
    /\ item[1].key # item[2].key
    /\ item[1].calls = 1 /\ item[2].calls = 1

RecordIds == 1..Len(attendance)
RecordsOf(sessionId, email) ==
    {n \in RecordIds : attendance[n].sessionId = sessionId
                       /\ attendance[n].email = email}

\* C12: at most one attendance record per (sessionId, email), in every state
\* of the attendance table and for every interleaving of the handlers of
\* concurrent POST /submit requests.
C12_OneRecordPerStudent ==
    \A sessionId \in SessionIds, email \in Emails :
        Cardinality(RecordsOf(sessionId, email)) <= 1

\* C13: idempotent resubmission. When a submission arrives for a valid
\* session and an email whose earlier submission is recorded (the pair is an
\* attendee and has its one record), the handler returns at the duplicate
\* check: validateSubmission is not called (the handler is never suspended),
\* and records, attendees, attendee count, cheating logs, tasks and the whole
\* queue are left as they were, so the pair still has exactly one record.
C13_IdempotentResubmission ==
    [][\A r \in RequestIds, sessionId \in SessionIds, email \in Emails,
          ipAddress \in IpAddresses, macAddress \in MacAddresses,
          position \in Positions :
          (/\ SubmitBegin(r, sessionId, email, ipAddress, macAddress, position)
           /\ sessions[sessionId].isActive /\ now <= sessions[sessionId].expiresAt
           /\ <<sessionId, email>> \in attendees
           /\ Cardinality(RecordsOf(sessionId, email)) = 1) =>
              /\ req'[r].pc = "done"
              /\ req'[r].status = 200
              /\ UNCHANGED <<attendance, attendees, sessions, cheatingLogs,
                             task, sheet, violationLog, qvars>>
              /\ Cardinality({n \in 1..Len(attendance') :
                                 /\ attendance'[n].sessionId = sessionId
                                 /\ attendance'[n].email = email}) = 1]_vars

\* The first submission was accepted (its record is the only one, its mirror
\* task is in flight) and the second one was answered at the duplicate check.
C13_Witness ==
    /\ req[1].pc = "done" /\ req[1].message = SubmittedMessage
    /\ req[2].pc = "done" /\ req[2].message = AlreadyRecordedMessage
    /\ Len(attendance) = 1
    /\ Cardinality(attendees) = 1
    /\ \E i \in Ids : task[i].kind = "attendance" /\ item[i].at = "running"

\* C14: response indistinguishability. The responses (status code and body)
\* of POST /submit to any two well-formed submissions are the same, whether
\* the session was missing, inactive or expired, the submission a duplicate
\* for (sessionId, email), or accepted as PRESENT or FLAGGED.
C14_SameResponse ==
    \A r1 \in RequestIds, r2 \in RequestIds :
        (req[r1].pc = "done" /\ req[r2].pc = "done") =>
            /\ req[r1].status = req[r2].status
            /\ req[r1].message = req[r2].message

SessionInvalid(sessionId) ==
    \/ sessionId \notin SessionIds
    \/ ~sessions[sessionId].isActive
    \/ now > sessions[sessionId].expiresAt

ViolationTypes(violations) == [i \in 1..Len(violations) |-> violations[i].type]

\* C16: the stored status of a record is PRESENT exactly when
\* validateSubmission returned no violation for it and FLAGGED otherwise; the
\* record carries the whole list validateSubmission returned, which is a
\* Location Violation, a Duplicate Device, or both in that order.
C16_StatusFromViolations ==
    /\ [](\A n \in RecordIds :
            /\ attendance[n].status \in {"PRESENT", "FLAGGED"}
            /\ attendance[n].status = "PRESENT" <=> attendance[n].violations = <<>>
            /\ ViolationTypes(attendance[n].violations) \in
                  {<<>>, <<"Location Violation">>, <<"Duplicate Device">>,
                   <<"Location Violation", "Duplicate Device">>})
    /\ [][\A r \in RequestIds :
            (req[r].pc = "awaiting" /\ req'[r].pc = "done") =>
                /\ Len(attendance') = Len(attendance) + 1
                /\ attendance'[Len(attendance')].violations = req[r].violations
                /\ attendance'[Len(attendance')].email = req[r].email
                /\ attendance'[Len(attendance')].sessionId = req[r].sessionId]_vars

\* A PRESENT record and, after it, a FLAGGED record of the same session with
\* both violations.
C16_Witness ==
    /\ Len(attendance) = 2
    /\ attendance[1].status = "PRESENT" /\ attendance[1].violations = <<>>
    /\ attendance[2].status = "FLAGGED"
    /\ ViolationTypes(attendance[2].violations) =
          <<"Location Violation", "Duplicate Device">>

\* C17: geofence boundary. When the student's and the classroom's
\* coordinates are both present, validateLocation answers valid exactly when
\* the distance between them is <= the radius in force (the given radius, or
\* the default of 100 when it is unset), and it reports that distance.
C17_GeofenceBoundary ==
    (geo.called /\ geo.student.given /\ geo.classroom.given) =>
        /\ geo.valid <=>
              GetDistance(geo.student, geo.classroom) <=
                  (IF geo.radius # 0 THEN geo.radius ELSE DefaultGeofenceRadius)
        /\ geo.distance = GetDistance(geo.student, geo.classroom)

RecordsInSession(sessionId) ==
    {n \in RecordIds : attendance[n].sessionId = sessionId}

HasDuplicateDevice(violations) ==
    \E i \in 1..Len(violations) : violations[i].type = "Duplicate Device"

MatchingRecords(rq) ==
    {n \in RecordIds :
        /\ attendance[n].sessionId = rq.sessionId
        /\ \/ attendance[n].ipAddress = rq.ipAddress
           \/ attendance[n].macAddress = rq.macAddress}

\* C19: violation logging. A submission validated with violations leaves in
\* the violation store (the cheating_logs table that getViolations reads)
\* one new entry per violation of the submitter and, on a duplicate device,
\* one more Duplicate Device entry per matching earlier record, carrying
\* that record's email.
C19_ViolationsLogged ==
    [][\A r \in RequestIds :
          (req[r].pc = "idle" /\ req'[r].pc = "awaiting"
              /\ req'[r].violations # <<>>) =>
              LET rq == req'[r]
                  matching == MatchingRecords(rq)
                  added == SubSeq(cheatingLogs', Len(cheatingLogs) + 1,
                                  Len(cheatingLogs'))
              IN /\ SubSeq(cheatingLogs', 1, Len(cheatingLogs)) = cheatingLogs
                 /\ Len(added) = Len(rq.violations) + Cardinality(matching)
                 /\ \A i \in 1..Len(rq.violations) :
                       added[i] = [sessionId |-> rq.sessionId,
                                   email |-> rq.email,
                                   violationType |-> rq.violations[i].type]
                 /\ \A n \in matching :
                       \E j \in 1..Len(added) :
                           /\ j > Len(rq.violations)
                           /\ added[j] = [sessionId |-> rq.sessionId,
                                          email |-> attendance[n].email,
                                          violationType |-> "Duplicate Device"]]_vars

\* The ids of the attendance mirror tasks enqueued for a record.
MirrorTasksOf(n) ==
    {i \in Ids : task[i].kind = "attendance" /\ task[i].recordId = n}

OnSheet(n) == \E i \in 1..Len(sheet) : sheet[i] = n

\* C20: the synced flag. A record is created with synced = FALSE; the flag
\* turns TRUE only in the step in which the record's own mirror task resolves
\* and its onSuccess callback is called, after the row was appended; a synced
\* record always has its row on the sheet, and a record whose mirror task
\* failed for good is never synced.
C20_SyncedFlag ==
    /\ [](\A n \in RecordIds :
             /\ attendance[n].synced => OnSheet(n)
             /\ (\E i \in MirrorTasksOf(n) : item[i].at = "failed") =>
                    ~attendance[n].synced)
    /\ [][/\ \A n \in 1..Len(attendance') :
                n > Len(attendance) => ~attendance'[n].synced
          /\ \A n \in RecordIds :
                (~attendance[n].synced /\ attendance'[n].synced) =>
                    \E i \in MirrorTasksOf(n) :
                        /\ item[i].at = "running"
                        /\ item'[i].at = "ok"
                        /\ item'[i].okCalls = item[i].okCalls + 1
                        /\ Len(sheet') = Len(sheet) + 1
                        /\ sheet'[Len(sheet')] = n
          /\ \A n \in RecordIds :
                attendance[n].synced => attendance'[n].synced]_vars

\* One record is synced with its row on the sheet while the mirror task of
\* another record has failed for good and that record is still unsynced.
C20_Witness ==
    \E n, m \in RecordIds :
        /\ attendance[n].synced /\ OnSheet(n)
        /\ ~attendance[m].synced /\ ~OnSheet(m)
        /\ \E i \in MirrorTasksOf(m) : item[i].at = "failed"

SheetRowsOf(n) == {i \in 1..Len(sheet) : sheet[i] = n}
LogRowsOf(n, type) ==
    {i \in 1..Len(violationLog) :
        violationLog[i] = [recordId |-> n, violationType |-> type]}

\* C21: at-most-once external sync. For every persisted record the
\* attendance row is on the spreadsheet at most once and each of its
\* violations is in the external violation log at most once, whatever tasks
\* failed and were retried.
C21_AtMostOnceSync ==
    \A n \in RecordIds :
        /\ Cardinality(SheetRowsOf(n)) <= 1
        /\ \A i \in 1..Len(attendance[n].violations) :
              Cardinality(LogRowsOf(n, attendance[n].violations[i].type)) <= 1

\* The positions of a call in the steps of a handler.
StepsAt(steps, call) == {i \in 1..Len(steps) : steps[i] = call}

\* C22: ordering of the submit path. In the step in which a suspended handler
\* goes on, the record is inserted with the data validated at step 3 and the
\* attendee added, both before the one res.json call, and every enqueue call
\* comes after it; the tasks are enqueued in that step and not earlier, the
\* handler has returned while they are still waiting or in flight (it does
\* not await the queue), and what a task has captured is the persisted
\* record. In every state a task belongs to a persisted record of an attendee.
C22_SubmitOrdering ==
    /\ [](\A i \in Ids : task[i].kind # "none" =>
             /\ task[i].recordId \in RecordIds
             /\ task[i].email = attendance[task[i].recordId].email
             /\ task[i].status = attendance[task[i].recordId].status
             /\ <<attendance[task[i].recordId].sessionId, task[i].email>>
                    \in attendees)
    /\ [][\A r \in RequestIds :
            (req[r].pc = "awaiting" /\ req'[r].pc = "done") =>
                LET rq == req[r]
                    n == Len(attendance) + 1
                    steps == req'[r].steps
                IN /\ Len(attendance') = n
                   /\ attendance'[n].sessionId = rq.sessionId
                   /\ attendance'[n].email = rq.email
                   /\ attendance'[n].violations = rq.violations
                   /\ <<rq.sessionId, rq.email>> \in attendees'
                   /\ req'[r].status = 200
                   /\ Cardinality(StepsAt(steps, "res.json")) = 1
                   /\ \A i \in StepsAt(steps, "res.json") :
                         /\ \E a \in StepsAt(steps, "addAttendanceRecord") : a < i
                         /\ \E a \in StepsAt(steps, "addAttendee") : a < i
                         /\ \A e \in StepsAt(steps, "enqueue") : i < e
                   /\ Cardinality(StepsAt(steps, "enqueue")) =
                         Cardinality({i \in Ids : task'[i] # task[i]})
                   /\ \A i \in Ids : task'[i] # task[i] =>
                         /\ task[i].kind = "none" /\ item[i].at = "none"
                         /\ item'[i].at \in {"queued", "running"}
                         /\ task'[i].recordId = n
                         /\ task'[i].email = rq.email
                         /\ task'[i].status = attendance'[n].status]_vars

\* A FLAGGED submission has been answered, after its record and before its
\* two enqueue calls, and its attendance task is still in flight.
C22_Witness ==
    \E r \in RequestIds, i \in Ids :
        /\ req[r].pc = "done"
        /\ req[r].steps = <<"addAttendanceRecord", "addAttendee", "res.json",
                            "enqueue", "enqueue">>
        /\ task[i].kind = "attendance" /\ item[i].at = "running"
        /\ attendance[task[i].recordId].status = "FLAGGED"
        /\ ~attendance[task[i].recordId].synced

\* The items enqueued in a step of the handler.
NewTasks == {i \in Ids : task[i].kind = "none" /\ task'[i].kind # "none"}

\* C23: mirror scheduling. The step that accepts a submission enqueues an
\* attendance task under the session id, with its onSuccess callback, exactly
\* when the session has a spreadsheet, and a separate violation task under
\* the teacher-scoped key, which is no session id, exactly when in addition
\* the record is FLAGGED; a PRESENT record makes one enqueue call, a session
\* without a spreadsheet none, and nothing else is enqueued.
C23_MirrorScheduling ==
    [][\A r \in RequestIds :
          (req[r].pc = "awaiting" /\ req'[r].pc = "done") =>
              LET sessionId == req[r].sessionId
                  target == sessions[sessionId].spreadsheetId
                  record == attendance'[Len(attendance')]
                  mirror == {i \in NewTasks : task'[i].kind = "attendance"}
                  violation == {i \in NewTasks : task'[i].kind = "violation"}
              IN /\ NewTasks = mirror \cup violation
                 /\ Cardinality(mirror) = (IF target THEN 1 ELSE 0)
                 /\ Cardinality(violation) =
                       (IF target /\ record.status = "FLAGGED" THEN 1 ELSE 0)
                 /\ \A i \in mirror : item'[i].key = sessionId /\ item'[i].cb
                 /\ \A i \in violation :
                       /\ item'[i].key = ViolationsKey
                       /\ item'[i].key \notin SessionIds
                       /\ \A j \in mirror : j < i
                 /\ (target /\ record.status = "PRESENT") =>
                       Cardinality(NewTasks) = 1
                 /\ ~target => NewTasks = {}
                 /\ nextId' = nextId + Cardinality(NewTasks)]_vars

\* A PRESENT record of the session with a spreadsheet has one task, under the
\* session id; a FLAGGED record of the same session has two, the second one
\* under the teacher-scoped key.
C23_Witness ==
    /\ Len(attendance) = 2
    /\ attendance[1].sessionId = 1 /\ attendance[1].status = "PRESENT"
    /\ attendance[2].sessionId = 1 /\ attendance[2].status = "FLAGGED"
    /\ nextId = 4
    /\ task[1].kind = "attendance" /\ task[1].recordId = 1
    /\ task[2].kind = "attendance" /\ task[2].recordId = 2
    /\ task[3].kind = "violation" /\ task[3].recordId = 2
    /\ item[1].key = 1 /\ item[2].key = 1 /\ item[3].key = ViolationsKey

\* The responses a handler has written.
ResponsesOf(rq) ==
    StepsAt(rq.steps, "res.json") \cup StepsAt(rq.steps, "res.status(500).json")

\* C24: background failures are terminal-local. A step in which a mirror or
\* violation task rejects, at any attempt, leaves every request as it was:
\* the response sent stays the one sent and no second response is written;
\* the failure goes to the retry or the terminal bookkeeping of its lane and
\* no call of enqueue has raised an exception. A handler that has responded
\* keeps its one response for good.
C24_FailuresTerminalLocal ==
    /\ [](~enqueueThrew)
    /\ [](\A r \in RequestIds : req[r].pc = "done" =>
             /\ Cardinality(ResponsesOf(req[r])) = 1
             /\ req[r].status = 200)
    /\ [][\A r \in RequestIds : req[r].pc = "done" => req'[r] = req[r]]_vars
    /\ [][\A i \in Ids :
            (item[i].at = "running" /\ item'[i].at \in {"backoff", "failed"}) =>
                /\ req' = req
                /\ ~enqueueThrew'
                /\ pc'[item[i].key] \in {"backoff", "task", "settled"}
                /\ UNCHANGED <<attendance, attendees, sessions>>]_vars

\* The attendance task of an answered submission has failed for good; the
\* response is the one that was sent.
C24_Witness ==
    \E i \in Ids :
        /\ task[i].kind = "attendance" /\ item[i].at = "failed"
        /\ req[task[i].request].pc = "done"
        /\ req[task[i].request].status = 200
        /\ req[task[i].request].message = SubmittedMessage
        /\ Cardinality(ResponsesOf(req[task[i].request])) = 1

\* C25: backoff delay. When an attempt of an item fails with retries left,
\* the timer the lane waits on before retry number k (k = 1..retries) is set
\* to retryDelay * 2^(k-1) ms: retryDelay before retry 1, 2 * retryDelay
\* before retry 2. The first attempt of an item follows its enqueue or the
\* end of the item before it without any timer.
C25_BackoffDelay ==
    /\ [][\A i \in Ids :
            /\ (item[i].at = "running" /\ item'[i].at = "backoff") =>
                  LET k == item'[i].retries
                  IN /\ k = item[i].retries + 1
                     /\ k \in 1..opts.retries
                     /\ item'[i].delay = opts.retryDelay * 2 ^ (k - 1)
                     /\ k = 1 => item'[i].delay = opts.retryDelay
                     /\ k = 2 => item'[i].delay = 2 * opts.retryDelay
            /\ (item[i].calls = 0 /\ item'[i].calls = 1) =>
                  /\ item[i].at \in {"none", "queued"}
                  /\ item'[i].at = "running"
                  /\ item'[i].delay = 0]_vars
    /\ [](\A i \in Ids : (Live(i) /\ item[i].retries = 0) => item[i].delay = 0)

\* An item waits for its second retry, with a timer of twice the retryDelay.
C25_Witness ==
    \E i \in Ids :
        /\ item[i].at = "backoff" /\ item[i].retries = 2
        /\ item[i].delay = 2 * DefaultRetryDelay

\* What the lane of an item does once the item has settled: it takes the next
\* item of its backlog or, with an empty backlog, ends its loop.
LaneGoesOn(i) ==
    LET k == item[i].key
    IN IF _lanes[k] # <<>>
       THEN /\ pc'[k] = "task"
            /\ cur'[k] = Head(_lanes[k])
            /\ item'[Head(_lanes[k])].at = "running"
       ELSE pc'[k] = "settled" /\ k \in _activeLanes'

\* C26: callback exceptions cannot corrupt the queue. _processed grows only
\* in a step in which an item goes from in flight to succeeded, by one, with
\* onSuccess called once, _failed unchanged and the item never retried;
\* _failed grows only in a step in which an item fails for good, by one, with
\* onFailure called once; in both cases, also when the callback throws, the
\* lane goes on with its next item or ends its loop, to be released by its
\* .finally callback, and the settled item stays as it is.
C26_CallbackExceptions ==
    [][/\ \A i \in Ids :
            /\ (item[i].at = "running" /\ item'[i].at = "ok") =>
                  /\ _processed' = _processed + 1
                  /\ _failed' = _failed
                  /\ item'[i].okCalls = 1 /\ item'[i].failCalls = 0
                  /\ LaneGoesOn(i)
            /\ (item[i].at = "running" /\ item'[i].at = "failed") =>
                  /\ _failed' = _failed + 1
                  /\ _processed' = _processed
                  /\ item'[i].failCalls = 1 /\ item'[i].okCalls = 0
                  /\ LaneGoesOn(i)
            /\ Done(i) => item'[i] = item[i]
       /\ _processed' # _processed =>
             \E i \in Ids : item[i].at = "running" /\ item'[i].at = "ok"
       /\ _failed' # _failed =>
             \E i \in Ids : item[i].at = "running" /\ item'[i].at = "failed"]_vars

\* An item whose onSuccess throws has succeeded and one whose onFailure
\* throws has failed for good, each counted once, and the item behind them
\* in the lane is in flight.
C26_Witness ==
    \E a, b, c \in Ids :
        /\ item[a].at = "ok" /\ item[a].throws /\ item[a].okCalls = 1
        /\ item[b].at = "failed" /\ item[b].throws /\ item[b].failCalls = 1
        /\ item[c].at = "running"
        /\ item[a].key = item[c].key /\ item[b].key = item[c].key
        /\ _processed = 1 /\ _failed = 1

InTable(order, k) == \E i \in 1..Len(order) : order[i] = k

\* C27: lane lifecycle. An accepted enqueue under a key without a lane
\* creates the lane; a lane leaves the table only in the .finally callback of
\* its loop and only with an empty backlog. In every state a lane of the
\* table has a backlog or is active, a backlog belongs to a lane of the
\* table, and with no active lane and a pending count of 0 the table is
\* empty (stats.lanes = 0).
C27_LaneLifecycle ==
    /\ [](/\ \A k \in Keys :
               /\ InTable(laneOrder, k) => (_lanes[k] # <<>> \/ k \in _activeLanes)
               /\ _lanes[k] # <<>> => InTable(laneOrder, k)
          /\ (_activeLanes = {} /\ _totalItems = 0) => Len(laneOrder) = 0
          /\ \A i, j \in 1..Len(laneOrder) : laneOrder[i] = laneOrder[j] => i = j)
    /\ [][\A k \in Keys :
            /\ (IsEnqueueCall /\ item'[nextId].at # "rejected"
                    /\ item'[nextId].key = k /\ ~InTable(laneOrder, k)) =>
                  InTable(laneOrder', k)
            /\ (InTable(laneOrder, k) /\ ~InTable(laneOrder', k)) =>
                  /\ pc[k] = "settled"
                  /\ _lanes[k] = <<>>
                  /\ k \notin _activeLanes'
            /\ (pc[k] = "settled" /\ pc'[k] # "settled" /\ _lanes[k] = <<>>) =>
                  ~InTable(laneOrder', k)]_vars

\* The queue has worked and is idle again with an empty table: two items of
\* one key have settled and the lane of the key is gone.
C27_Witness ==
    /\ _activeLanes = {} /\ _totalItems = 0 /\ laneOrder = <<>>
    /\ \E a, b \in Ids : a < b /\ Done(a) /\ Done(b) /\ item[a].key = item[b].key
    /\ _processed + _failed >= 2

LiveOf(k) == {i \in Ids : Live(i) /\ item[i].key = k}

\* C28: a started lane keeps its slot until its backlog is exhausted. A lane
\* leaves the active set only when no item of its key is waiting, in flight
\* or in backoff, items enqueued after it started included; an item enqueued
\* under an active key joins the backlog of that lane, which stays active;
\* and no step admits another lane while it takes the slot of a lane that
\* still has work.
C28_RunsToExhaustion ==
    [][\A k \in Keys :
          /\ (k \in _activeLanes /\ k \notin _activeLanes') =>
                /\ LiveOf(k) = {}
                /\ _lanes[k] = <<>> /\ _lanes'[k] = <<>>
          /\ (IsEnqueueCall /\ k \in _activeLanes
                  /\ item'[nextId].at # "rejected" /\ item'[nextId].key = k) =>
                /\ k \in _activeLanes'
                /\ item'[nextId].at = "queued"
                /\ _lanes'[k] = Append(_lanes[k], nextId)
          /\ \A j \in Keys :
                (j # k /\ j \notin _activeLanes /\ j \in _activeLanes'
                     /\ k \in _activeLanes /\ LiveOf(k) # {}) =>
                    k \in _activeLanes']_vars

\* With one slot: an item enqueued under the active key after an item of
\* another key is in flight, the earlier item of the other key still waiting
\* for the slot.
C28_Witness ==
    \E a, b, c \in Ids :
        /\ opts.concurrency = 1
        /\ a < b /\ b < c
        /\ item[a].at = "ok" /\ item[c].at = "running"
        /\ item[a].key = item[c].key
        /\ item[b].at = "queued" /\ item[b].calls = 0
        /\ item[b].key # item[a].key
        /\ item[b].key \notin _activeLanes

\* The lanes whose loop waits for its task to settle.
TaskLanes == {k \in Keys : pc[k] = "task"}

\* No task in flight settles in the step.
NothingSettles ==
    \A k \in TaskLanes :
        pc'[k] = "task" /\ cur'[k] = cur[k] /\ item'[cur[k]] = item[cur[k]]

\* C29: a task that does not complete occupies its lane slot. As long as the
\* task of an item is in flight its lane stays active and the later items of
\* its key wait, unstarted; while as many lanes as there are slots wait for
\* their tasks and none of these settles, no task of any lane is started and
\* the active set does not change, and a call of enqueue is still accepted,
\* its item left waiting, until the pending count is at maxSize, from where
\* on it is rejected.
C29_HungTaskHoldsSlot ==
    /\ [](\A k \in TaskLanes :
             /\ k \in _activeLanes
             /\ item[cur[k]].at = "running"
             /\ \A i \in Ids : (item[i].key = k /\ item[i].at = "queued"
                                  /\ i > cur[k]) => item[i].calls = 0)
    /\ [][(Cardinality(TaskLanes) = opts.concurrency /\ NothingSettles) =>
             /\ \A i \in Ids : item'[i].calls = item[i].calls
             /\ _activeLanes' = _activeLanes
             /\ IsEnqueueCall =>
                   IF _totalItems < opts.maxSize
                   THEN /\ item'[nextId].at = "queued"
                        /\ _totalItems' = _totalItems + 1
                   ELSE /\ item'[nextId].at = "rejected"
                        /\ _totalItems' = _totalItems]_vars

\* One slot, its task still in flight; an item of another key was accepted
\* and waits, unstarted, and with the pending count at maxSize the next call
\* was rejected.
C29_Witness ==
    /\ opts.concurrency = 1 /\ opts.maxSize = 1
    /\ item[1].at = "running" /\ item[1].calls = 1
    /\ item[2].at = "queued" /\ item[2].calls = 0 /\ item[2].key # item[1].key
    /\ item[3].at = "rejected"
    /\ _activeLanes = {item[1].key}

HasLocationViolation(violations) ==
    \E i \in 1..Len(violations) : violations[i].type = "Location Violation"

\* A validated submission whose body carries no coordinates, or whose session
\* has no classroom location.
Unverifiable(rq) ==
    \/ ~rq.position.given
    \/ ~sessions[rq.sessionId].classroomLocation.given

\* Such a submission gets no Location Violation, and any violation it gets
\* comes with a Duplicate Device violation.
NeverLocationFlagged ==
    \A r \in RequestIds :
        (req[r].pc = "idle" /\ req'[r].pc = "awaiting" /\ Unverifiable(req'[r])) =>
            /\ ~HasLocationViolation(req'[r].violations)
            /\ req'[r].violations # <<>> => HasDuplicateDevice(req'[r].violations)

\* The record of such a submission is FLAGGED only with a Duplicate Device
\* violation.
FlaggedOnlyAsDuplicate ==
    \A r \in RequestIds :
        (req[r].pc = "awaiting" /\ req'[r].pc = "done" /\ Unverifiable(req[r])) =>
            LET record == attendance'[Len(attendance')]
            IN /\ ~HasLocationViolation(record.violations)
               /\ record.status = "FLAGGED" => HasDuplicateDevice(record.violations)

\* No violation of a submission without coordinates carries a distance: the
\* distance is unknown (negative), never 0.
DistanceUnknown ==
    \A r \in RequestIds :
        (req[r].pc = "idle" /\ req'[r].pc = "awaiting" /\ ~req'[r].position.given) =>
            \A i \in 1..Len(req'[r].violations) :
                req'[r].violations[i].distance < 0

\* C30: unverifiable or unconfigured location never flags by itself. A
\* submission without student coordinates gets no Location Violation and its
\* location distance is reported as unknown, not as zero; a submission to a
\* session without a classroom location gets no Location Violation whatever
\* the coordinates of the student; such a submission is FLAGGED only if the
\* duplicate-device check fails.
C30_UnverifiableLocation ==
    [][NeverLocationFlagged /\ FlaggedOnlyAsDuplicate /\ DistanceUnknown]_vars

\* The same without the reported distance.
C30_NeverFlagsByItself ==
    [][NeverLocationFlagged /\ FlaggedOnlyAsDuplicate]_vars

\* The records persisted before record j for the same session.
EarlierInSession(j) ==
    {i \in RecordIds : i < j /\ attendance[i].sessionId = attendance[j].sessionId}

\* C31: an omitted MAC address is not a matching MAC address. A record whose
\* submission omitted macAddress (stored as 'N/A'), persisted after records
\* of the same session that all came from other IP addresses and omitted
\* macAddress too, has no Duplicate Device violation, and is PRESENT when it
\* has no Location Violation.
C31_OmittedMacNoMatch ==
    \A j \in RecordIds :
        LET record == attendance[j]
        IN (/\ record.macAddress = "N/A"
            /\ EarlierInSession(j) # {}
            /\ \A i \in EarlierInSession(j) :
                  /\ attendance[i].ipAddress # record.ipAddress
                  /\ attendance[i].macAddress = "N/A") =>
               /\ ~HasDuplicateDevice(record.violations)
               /\ ~HasLocationViolation(record.violations) => record.status = "PRESENT"

\* A step of a POST /submit handler: its request record changes.
IsSubmissionStep == req' # req

C33_RowOrder ==
    /\ \A i \in 1..Len(sheet) :
          /\ sheet[i] \in RecordIds
          /\ sessions[attendance[sheet[i]].sessionId].spreadsheetId
    /\ \A i, j \in 1..Len(sheet) :
          (i < j /\ attendance[sheet[i]].sessionId = attendance[sheet[j]].sessionId) =>
              sheet[i] < sheet[j]

\* Two records of one session are on its sheet.
C33_Witness ==
    /\ Len(sheet) = 2
    /\ attendance[sheet[1]].sessionId = attendance[sheet[2]].sessionId
    /\ attendance[sheet[1]].email # attendance[sheet[2]].email

\* A step in which isSessionValid is called and returns.
IsValidityCall == ~sessionCheck.called /\ sessionCheck'.called

\* C34: session validity. isSessionValid answers valid exactly when the
\* session exists, is active and the clock is not after expiresAt. It writes
\* only when the session is active and expired, and then it sets that session
\* inactive; in every other case the sessions table is left as it is. It
\* never sets isActive to true, never touches another session and changes
\* nothing outside the sessions table.
C34_SessionValidity ==
    [][IsValidityCall =>
          LET id == sessionCheck'.sessionId
              known == id \in DOMAIN sessions
          IN /\ sessionCheck'.valid <=>
                   (known /\ sessions[id].isActive /\ now <= sessions[id].expiresAt)
             /\ DOMAIN sessions' = DOMAIN sessions
             /\ \A s \in DOMAIN sessions :
                   IF s = id /\ sessions[s].isActive /\ now > sessions[s].expiresAt
                   THEN sessions'[s] = [sessions[s] EXCEPT !.isActive = FALSE]
                   ELSE sessions'[s] = sessions[s]
             /\ UNCHANGED <<qvars, now, attendees, attendance, cheatingLogs,
                            req, nextReq, task, sheet, violationLog>>]_vars

\* isSessionValid was called on session 1 after its expiry and answered
\* invalid: session 1 is now inactive, while session 2, expired as well, is
\* still active.
C34_Witness ==
    /\ sessionCheck = [sessionId |-> 1, called |-> TRUE, valid |-> FALSE]
    /\ now > sessions[1].expiresAt /\ ~sessions[1].isActive
    /\ now > sessions[2].expiresAt /\ sessions[2].isActive

\* C35: a deactivated session stays closed unless extended. isActive goes
\* back to true only in a step that extends the session (its expiresAt
\* grows), and every extension sets it, whoever deactivated the session; a
\* submission that arrives while its session is inactive never gets as far
\* as validation, and a record is persisted only by the rest of a handler
\* that got that far, for the session it was checked against.
C35_StaysClosed ==
    [][/\ \A s \in SessionIds :
             /\ (~sessions[s].isActive /\ sessions'[s].isActive) =>
                    sessions'[s].expiresAt > sessions[s].expiresAt
             /\ sessions'[s].expiresAt > sessions[s].expiresAt => sessions'[s].isActive
       /\ \A r \in RequestIds :
             (req[r].pc = "idle" /\ req'[r].pc = "awaiting") =>
                 sessions[req'[r].sessionId].isActive
       /\ Len(attendance') > Len(attendance) =>
             /\ Len(attendance') = Len(attendance) + 1
             /\ \E r \in RequestIds :
                   /\ req[r].pc = "awaiting" /\ req'[r].pc = "done"
                   /\ attendance'[Len(attendance')].sessionId = req[r].sessionId
                   /\ attendance'[Len(attendance')].email = req[r].email]_vars

\* Both sessions were deactivated by the teacher before the first tick of
\* the clock, both requests have been answered, and no record and no
\* attendee was stored.
C35_Witness ==
    /\ now = 0
    /\ \A s \in SessionIds : ~sessions[s].isActive /\ sessions[s].attendeeCount = 0
    /\ \A r \in RequestIds : req[r].pc = "done" /\ req[r].status = 200
    /\ attendance = <<>> /\ attendees = {}

\* C36: records accepted before the spreadsheet is attached are never
\* mirrored. The handler takes the spreadsheet id from the session row it read
\* at its session check; when that row had none, the rest of the handler
\* enqueues nothing, also when the id has been attached in between. A mirror
\* task is created only in the step that persists its record, so a record
\* without an attendance task never gets one, and it is never synced.
C36_NeverMirrored ==
    /\ [](\A n \in RecordIds : MirrorTasksOf(n) = {} => ~attendance[n].synced)
    /\ [][/\ \A r \in RequestIds :
                /\ (req[r].pc = "idle" /\ req'[r].pc = "awaiting") =>
                       req'[r].spreadsheetId = sessions[req'[r].sessionId].spreadsheetId
                /\ (req[r].pc = "awaiting" /\ req'[r].pc = "done" /\ ~req[r].spreadsheetId) =>
                       /\ task' = task /\ nextId' = nextId
                       /\ ~attendance'[Len(attendance')].synced
          /\ \A i \in Ids :
                task'[i] # task[i] =>
                    /\ Len(attendance') = Len(attendance) + 1
                    /\ task'[i].recordId = Len(attendance')]_vars

\* The first record of session 2 was accepted before the spreadsheet was
\* attached: it has no mirror task and is not synced, while the spreadsheet
\* is attached now and a later record of the session is on the sheet.
C36_Witness ==
    /\ Len(attendance) = 2
    /\ attendance[1].sessionId = 2 /\ attendance[2].sessionId = 2
    /\ MirrorTasksOf(1) = {} /\ ~attendance[1].synced
    /\ sessions[2].spreadsheetId
    /\ attendance[2].synced /\ OnSheet(2) /\ ~OnSheet(1)

\* C37: each accepted item gets exactly one terminal callback. onSuccess is
\* called at most once per item, in the step in which an attempt of its task
\* succeeded; onFailure at most once, in the step in which its last permitted
\* attempt failed; never both. An item that waits, runs or sits in backoff
\* has had no callback, so a failed attempt that is retried calls none. A
\* rejected item has had onFailure once (when supplied) and never onSuccess.
C37_OneTerminalCallback ==
    /\ [](\A i \in Ids :
             /\ item[i].okCalls + item[i].failCalls <= 1
             /\ Live(i) => (item[i].okCalls = 0 /\ item[i].failCalls = 0)
             /\ item[i].at = "ok" => (item[i].okCalls = 1 /\ item[i].failCalls = 0)
             /\ item[i].at = "failed" => (item[i].okCalls = 0 /\ item[i].failCalls = 1)
             /\ item[i].at = "rejected" =>
                   /\ item[i].okCalls = 0
                   /\ item[i].failCalls = IF item[i].cb THEN 1 ELSE 0)
    /\ [][\A i \in Ids :
             /\ item'[i].okCalls # item[i].okCalls =>
                   /\ item[i].at = "running" /\ item'[i].at = "ok"
                   /\ _processed' = _processed + 1 /\ _failed' = _failed
             /\ item'[i].failCalls # item[i].failCalls =>
                   \/ /\ item[i].at = "running" /\ item'[i].at = "failed"
                      /\ item[i].calls = opts.retries + 1
                      /\ _failed' = _failed + 1
                   \/ /\ item[i].at = "none" /\ item'[i].at = "rejected"
                      /\ _totalItems >= opts.maxSize
             /\ (item[i].at = "running" /\ item'[i].at = "backoff") =>
                   /\ item'[i].okCalls = 0 /\ item'[i].failCalls = 0]_vars

\* One item succeeded and its onSuccess threw, one failed on every attempt,
\* and one was rejected by backpressure: each has had its one callback.
C37_Witness ==
    /\ opts.retries >= 1
    /\ item[1].at = "ok" /\ item[1].okCalls = 1 /\ item[1].throws
    /\ item[2].at = "failed" /\ item[2].failCalls = 1
    /\ item[3].at = "rejected" /\ item[3].failCalls = 1

\* The items enqueue has accepted so far, and those a loop has taken out of
\* their lane and not settled: in flight or waiting in backoff.
AcceptedItems == {i \in Ids : Accepted(i)}
OutOfLane == {i \in Ids : item[i].at \in {"running", "backoff"}}

\* C38: counter conservation. In every state the number of accepted items
\* is _processed + _failed + _totalItems + the number of items out of their
\* lane; _processed and _failed never decrease; and when nothing is pending
\* and no lane is active, accepted = _processed + _failed.
C38_CounterConservation ==
    /\ [](/\ Cardinality(AcceptedItems) =
                _processed + _failed + _totalItems + Cardinality(OutOfLane)
          /\ (_totalItems = 0 /\ _activeLanes = {}) =>
                Cardinality(AcceptedItems) = _processed + _failed)
    /\ [][_processed' >= _processed /\ _failed' >= _failed]_vars

\* Three accepted items: one processed, one failed for good, and the third
\* in backoff after a failed attempt, with nothing pending.
C38_Witness ==
    /\ Cardinality(AcceptedItems) = 3
    /\ _processed = 1 /\ _failed = 1 /\ _totalItems = 0
    /\ \E i \in Ids : item[i].at = "backoff"

\* The sum of the lengths of the backlogs of the first n lanes of the table.
RECURSIVE BacklogLength(_)
BacklogLength(n) ==
    IF n = 0 THEN 0 ELSE BacklogLength(n - 1) + Len(_lanes[laneOrder[n]])

\* C39: the pending counter. In every state _totalItems is the sum of the
\* lengths of the backlogs of the lanes in the lane table, and it is not
\* negative; a backlog outside the table holds nothing.
C39_PendingCounter ==
    /\ _totalItems = BacklogLength(Len(laneOrder))
    /\ _totalItems >= 0
    /\ \A k \in Keys : ~InTable(laneOrder, k) => _lanes[k] = <<>>

\* After enqueues, starts, a retry and the removal of a lane: the lane of a
\* finished item is gone from the table, a retried item runs again, and one
\* item waits behind it and is the whole pending count.
C39_Witness ==
    \E a, b, c \in Ids :
        /\ item[a].at = "ok" /\ ~InTable(laneOrder, item[a].key)
        /\ item[b].at = "running" /\ item[b].retries >= 1
        /\ item[c].at = "queued" /\ item[c].key = item[b].key
        /\ _totalItems = 1

====
